---- MODULE Spec2Model ----
(***************************************************************************)
(* Model of the binvec crate: Binvec<L, N>, a fixed-length bit array       *)
(* packed into N bytes (src/src/lib.rs), its borrowing iterator BinvecIter *)
(* (src/src/iter.rs) and the IndexOutOfBounds error (src/src/error.rs).    *)
(***************************************************************************)
EXTENDS Integers, Sequences, FiniteSets, TLC

VARIABLES L, N, inner, other, last, iter, yielded, panicked

vars == <<L, N, inner, other, last, iter, yielded, panicked>>

(***************************************************************************)
(* Bounds of the model.                                                    *)
(***************************************************************************)
\* largest bit length of the container in Spec and SpecIter
MaxLen == 9
\* largest bit length of the two compared containers in SpecEq
MaxLenEq == 6
\* largest bit length and byte count handed to the raw constructor in SpecNew
MaxLenNew == 4
MaxN == 2
\* indices tried by get/set run from 0 to MaxOver past the last valid index
MaxOver == 1
\* calls of next() tried after the iterator is exhausted
MaxNone == 2

(***************************************************************************)
(* u8 arithmetic.                                                          *)
(***************************************************************************)
\* 1 << k
Pow2(k) == <<1, 2, 4, 8, 16, 32, 64, 128, 256>>[k + 1]

\* (b >> k) & 1
Bit(b, k) == (b \div Pow2(k)) % 2

\* a & b
RECURSIVE And8(_, _)
And8(a, b) ==
    IF a = 0 \/ b = 0 THEN 0
    ELSE (a % 2) * (b % 2) + 2 * And8(a \div 2, b \div 2)

\* a | b
Or8(a, b) == a + b - And8(a, b)

\* !a
Not8(a) == 255 - a

\* a << k, in u8
Shl8(a, k) == (a * Pow2(k)) % 256

\* u8::count_ones
PopCount8(b) == Bit(b, 0) + Bit(b, 1) + Bit(b, 2) + Bit(b, 3)
                + Bit(b, 4) + Bit(b, 5) + Bit(b, 6) + Bit(b, 7)

\* u8::count_zeros
ZeroCount8(b) == 8 - PopCount8(b)

(***************************************************************************)
(* Binvec<L, N>.  The buffer is a function from 0..N-1 to bytes.           *)
(***************************************************************************)
\* N as the binvec! macro derives it: (L + 7) >> 3
MacroN(len) == (len + 7) \div 8

\* Binvec::len
len(l) == l

\* indexing self.inner[index >> 3] panics when the byte is outside the array
IndexPanics(n, index) == (index \div 8) >= n

\* Binvec::get_unchecked, for an index whose byte is inside the array
get_unchecked(buf, index) ==
    LET byte_index == index \div 8
        bit_offset == index % 8
        byte == buf[byte_index]
    IN  Bit(byte, bit_offset) # 0

\* get with the bounds check off by one (index <= L)
get_off_by_one(buf, l, n, index) ==
    IF index <= l
    THEN IF IndexPanics(n, index) THEN "panic"
         ELSE IF get_unchecked(buf, index) THEN "Some(true)" ELSE "Some(false)"
    ELSE "None"

\* Binvec::get: "Some(true)", "Some(false)", "None", or "panic"
get(buf, l, n, index) ==
    IF index < l
    THEN IF IndexPanics(n, index) THEN "panic"
         ELSE IF get_unchecked(buf, index) THEN "Some(true)" ELSE "Some(false)"
    ELSE "None"

\* set_unchecked clearing with the mask instead of its complement
set_unchecked_clear_bug(buf, index, value) ==
    LET byte_index == index \div 8
        bit_offset == index % 8
        mask == Shl8(1, bit_offset)
    IN  [buf EXCEPT ![byte_index] =
            IF value = TRUE THEN Or8(@, mask) ELSE And8(@, mask)]

\* Binvec::set_unchecked, for an index whose byte is inside the array
set_unchecked(buf, index, value) ==
    LET byte_index == index \div 8
        bit_offset == index % 8
        mask == Shl8(1, bit_offset)
    IN  [buf EXCEPT ![byte_index] =
            IF value = TRUE THEN Or8(@, mask) ELSE And8(@, Not8(mask))]

\* set with the bounds check off by one (index <= L)
set_off_by_one(buf, l, n, index, value) ==
    IF index <= l
    THEN IF IndexPanics(n, index) THEN [inner |-> buf, ret |-> "panic"]
         ELSE [inner |-> set_unchecked(buf, index, value), ret |-> "Ok"]
    ELSE [inner |-> buf, ret |-> "Err(IndexOutOfBounds)"]

\* Binvec::set: the buffer after the call and Ok / Err(IndexOutOfBounds)
set(buf, l, n, index, value) ==
    IF index < l
    THEN IF IndexPanics(n, index) THEN [inner |-> buf, ret |-> "panic"]
         ELSE [inner |-> set_unchecked(buf, index, value), ret |-> "Ok"]
    ELSE [inner |-> buf, ret |-> "Err(IndexOutOfBounds)"]

\* inner[N - 1] in fill underflows or indexes outside an empty array
fill_panics(l, n) == l > 0 /\ l % 8 # 0 /\ n = 0

\* fill that leaves the last byte unmasked
fill_no_mask(l, n, value) ==
    [i \in 0..(n - 1) |-> IF value = TRUE THEN 255 ELSE 0]

\* Binvec::fill, when it does not panic
fill(l, n, value) ==
    LET byte == IF value = TRUE THEN 255 ELSE 0
        full == [i \in 0..(n - 1) |-> byte]
    IN  IF l > 0 /\ l % 8 # 0
        THEN LET last_bits == l % 8
                 mask == Shl8(1, last_bits) - 1
             IN  [full EXCEPT ![n - 1] = And8(@, mask)]
        ELSE full

\* new that returns the zeroed buffer without filling it
new_zeroed(l, n, initial_value) == [i \in 0..(n - 1) |-> 0]

\* Binvec::new, when fill does not panic
new(l, n, initial_value) == fill(l, n, initial_value)

RECURSIVE SumOnes(_, _)
SumOnes(buf, n) == IF n = 0 THEN 0 ELSE SumOnes(buf, n - 1) + PopCount8(buf[n - 1])

RECURSIVE SumZeros(_, _)
SumZeros(buf, n) == IF n = 0 THEN 0 ELSE SumZeros(buf, n - 1) + ZeroCount8(buf[n - 1])

\* count_ones whose loop stops one byte early
count_ones_short(buf, n) == IF n = 0 THEN 0 ELSE SumOnes(buf, n - 1)

\* Binvec::count_ones
count_ones(buf, n) == SumOnes(buf, n)

\* the usize subtractions of count_zeros go below zero (panic in a debug
\* build, wrap-around in a release build)
count_zeros_underflows(buf, l, n) == n * 8 < l \/ SumZeros(buf, n) < n * 8 - l

\* count_zeros that forgets the padding bits
count_zeros_naive(buf, l, n) == SumZeros(buf, n)

\* Binvec::count_zeros, as the mathematical value of count - ((N * 8) - L)
count_zeros(buf, l, n) == SumZeros(buf, n) - ((n * 8) - l)

\* is_all_one that compares with the raw bit count of the buffer
is_all_one_raw(buf, l, n) == count_ones(buf, n) = 8 * n

\* Binvec::is_all_one
is_all_one(buf, l, n) == count_ones(buf, n) = l

\* Binvec::is_all_zero
is_all_zero(buf, l, n) == count_zeros(buf, l, n) = l

\* derived PartialEq of Binvec: comparison of the byte arrays
eq(a, b) == a = b

(***************************************************************************)
(* BinvecIter.                                                             *)
(***************************************************************************)
NoIter == [alive |-> FALSE, index |-> 0]

\* BinvecIter::new
iter_new == [alive |-> TRUE, index |-> 0]

\* next with the end test off by one (index <= L)
next_off_by_one(it, buf, l, n) ==
    IF it.index <= l
    THEN IF IndexPanics(n, it.index) THEN [iter |-> it, ret |-> "panic"]
         ELSE [iter |-> [it EXCEPT !.index = it.index + 1],
               ret |-> IF get_unchecked(buf, it.index) THEN "Some(true)" ELSE "Some(false)"]
    ELSE [iter |-> it, ret |-> "None"]

\* <BinvecIter as Iterator>::next: the iterator after the call and the item
next(it, buf, l, n) ==
    IF it.index < l
    THEN IF IndexPanics(n, it.index) THEN [iter |-> it, ret |-> "panic"]
         ELSE [iter |-> [it EXCEPT !.index = it.index + 1],
               ret |-> IF get_unchecked(buf, it.index) THEN "Some(true)" ELSE "Some(false)"]
    ELSE [iter |-> it, ret |-> "None"]

(***************************************************************************)
(* State machine.                                                          *)
(***************************************************************************)
Call(op, index, value, ret) == [op |-> op, index |-> index, value |-> value, ret |-> ret]

Indices == 0..(L + MaxOver)

\* binvec!(length, initial_value)
Init ==
    \E length \in 0..MaxLen, initial_value \in BOOLEAN :
        /\ L = length
        /\ N = MacroN(length)
        /\ inner = new(length, MacroN(length), initial_value)
        /\ other = << >>
        /\ last = Call("new", length, initial_value, "Binvec")
        /\ iter = NoIter
        /\ yielded = << >>
        /\ panicked = fill_panics(length, MacroN(length))

\* Binvec::<length, n>::new(initial_value)
InitNew ==
    \E length \in 0..MaxLenNew, n \in 0..MaxN, initial_value \in BOOLEAN :
        /\ L = length
        /\ N = n
        /\ inner = IF fill_panics(length, n) THEN << >> ELSE new(length, n, initial_value)
        /\ other = << >>
        /\ last = Call("new", length, initial_value,
                       IF fill_panics(length, n) THEN "panic" ELSE "Binvec")
        /\ iter = NoIter
        /\ yielded = << >>
        /\ panicked = fill_panics(length, n)

\* binvec.set(index, value)
Set(index, value) ==
    /\ ~panicked
    /\ ~iter.alive
    /\ \E r \in {set(inner, L, N, index, value)} :
           /\ inner' = r.inner
           /\ last' = Call("set", index, value, r.ret)
           /\ panicked' = (r.ret = "panic")
    /\ UNCHANGED <<L, N, other, iter, yielded>>

\* binvec.get(index)
Get(index) ==
    /\ ~panicked
    /\ \E r \in {get(inner, L, N, index)} :
           /\ last' = Call("get", index, FALSE, r)
           /\ panicked' = (r = "panic")
    /\ UNCHANGED <<L, N, inner, other, iter, yielded>>

\* binvec.fill(value)
Fill(value) ==
    /\ ~panicked
    /\ ~iter.alive
    /\ inner' = IF fill_panics(L, N) THEN inner ELSE fill(L, N, value)
    /\ last' = Call("fill", 0, value, IF fill_panics(L, N) THEN "panic" ELSE "()")
    /\ panicked' = fill_panics(L, N)
    /\ UNCHANGED <<L, N, other, iter, yielded>>

\* let it = binvec.iter()
Iter ==
    /\ ~panicked
    /\ ~iter.alive
    /\ iter' = iter_new
    /\ yielded' = << >>
    /\ last' = Call("iter", 0, FALSE, "BinvecIter")
    /\ UNCHANGED <<L, N, inner, other, panicked>>

\* it.next(); yielded is the sequence of items returned so far
IterNext ==
    /\ ~panicked
    /\ iter.alive
    /\ Len(yielded) < L + MaxNone
    /\ \E r \in {next(iter, inner, L, N)} :
           /\ iter' = r.iter
           /\ yielded' = Append(yielded, r.ret)
           /\ last' = Call("next", iter.index, FALSE, r.ret)
           /\ panicked' = (r.ret = "panic")
    /\ UNCHANGED <<L, N, inner, other>>

\* the iterator goes out of scope and the borrow of the container ends
IterDrop ==
    /\ ~panicked
    /\ iter.alive
    /\ iter' = NoIter
    /\ yielded' = << >>
    /\ last' = Call("drop", 0, FALSE, "()")
    /\ UNCHANGED <<L, N, inner, other, panicked>>

Next ==
    \/ \E index \in Indices, value \in BOOLEAN : Set(index, value)
    \/ \E index \in Indices : Get(index)
    \/ \E value \in BOOLEAN : Fill(value)

Spec == Init /\ [][Next]_vars

SpecNew == InitNew /\ [][Next]_vars

NextIter ==
    \/ \E index \in Indices, value \in BOOLEAN : Set(index, value)
    \/ \E value \in BOOLEAN : Fill(value)
    \/ Iter
    \/ IterNext
    \/ IterDrop

SpecIter == Init /\ [][NextIter]_vars

\* let a = binvec!(length, va); let b = binvec!(length, vb);
InitEq ==
    \E length \in 0..MaxLenEq, va \in BOOLEAN, vb \in BOOLEAN :
        /\ L = length
        /\ N = MacroN(length)
        /\ inner = new(length, MacroN(length), va)
        /\ other = new(length, MacroN(length), vb)
        /\ last = Call("new", length, vb, "Binvec")
        /\ iter = NoIter
        /\ yielded = << >>
        /\ panicked = fill_panics(length, MacroN(length))

\* let _ = a.set(index, value)
SetA(index, value) ==
    /\ inner' = set(inner, L, N, index, value).inner
    /\ UNCHANGED <<L, N, other, last, iter, yielded, panicked>>

\* a.fill(value)
FillA(value) ==
    /\ inner' = fill(L, N, value)
    /\ UNCHANGED <<L, N, other, last, iter, yielded, panicked>>

\* let _ = b.set(index, value)
SetB(index, value) ==
    /\ other' = set(other, L, N, index, value).inner
    /\ UNCHANGED <<L, N, inner, last, iter, yielded, panicked>>

\* b.fill(value)
FillB(value) ==
    /\ other' = fill(L, N, value)
    /\ UNCHANGED <<L, N, inner, last, iter, yielded, panicked>>

NextEq ==
    \/ \E index \in Indices, value \in BOOLEAN : SetA(index, value)
    \/ \E value \in BOOLEAN : FillA(value)
    \/ \E index \in Indices, value \in BOOLEAN : SetB(index, value)
    \/ \E value \in BOOLEAN : FillB(value)

SpecEq == InitEq /\ [][NextEq]_vars

(***************************************************************************)
(* Properties.                                                             *)
(***************************************************************************)
\* raw bit of the buffer at bit position p, in or out of the logical range
RawBit(buf, p) == Bit(buf[p \div 8], p % 8)

\* the least number of bytes that hold l bits
MinBytes(l) == CHOOSE n \in 0..(l + 1) : n * 8 >= l /\ \A m \in 0..(n - 1) : m * 8 < l

\* the number of indices of [0, L) at which get returns true
LogicalOnes(buf) == Cardinality({i \in 0..(L - 1) : get(buf, L, N, i) = "Some(true)"})

Some(b) == IF b THEN "Some(true)" ELSE "Some(false)"

Min(a, b) == IF a < b THEN a ELSE b

\* C1: with N = ceil(L/8), in every state reached from construction by set
\* (any index, in or out of bounds) and fill calls, every bit of the buffer
\* at a bit position >= L is 0.
PaddingBitsZero ==
    N = MinBytes(L) => \A p \in L..(8 * N - 1) : RawBit(inner, p) = 0

\* a fill(true) has just run on a two-byte container whose last byte has padding
PaddingAfterFillTrue ==
    /\ last.op = "fill" /\ last.value = TRUE
    /\ N = 2 /\ L % 8 # 0
    /\ inner[0] = 255

\* C2: every container built by binvec! or by Binvec::<L, N>::new has a
\* buffer of exactly ceil(L/8) bytes, the least number that holds L bits.
ByteCountIsMinimal ==
    (last.ret # "panic" /\ ~panicked) => N = MinBytes(L)

\* C3: count_ones() + count_zeros() = L in every reachable state, and the
\* subtraction of the padding-bit count in count_zeros never goes below zero.
CountsSumToLength ==
    /\ ~count_zeros_underflows(inner, L, N)
    /\ count_ones(inner, N) + count_zeros(inner, L, N) = L

\* a set has run on a two-byte container with padding that holds ones and zeros
CountsOnMixedContainer ==
    /\ last.op = "set" /\ last.ret = "Ok"
    /\ N = 2 /\ L % 8 # 0
    /\ count_ones(inner, N) > 1
    /\ count_zeros(inner, L, N) > 1

\* C4: count_ones() is the number of indices i in [0, L) with get(i) true;
\* padding bits are never counted.
CountOnesIsLogical ==
    count_ones(inner, N) = LogicalOnes(inner)

\* binvec!(9, true): two bytes, count_ones() = 9 and not 16
NineOnesInTwoBytes ==
    /\ last = Call("new", 9, TRUE, "Binvec")
    /\ N = 2
    /\ count_ones(inner, N) = 9

\* C5: set(i, v) with i < L returns Ok, get(i) then returns v, and get(j)
\* for every other j in [0, L) returns what it returned before the set.
SetRoundTripAndFrame ==
    [][(last'.op = "set" /\ last'.index < L) =>
          /\ last'.ret = "Ok"
          /\ get(inner', L, N, last'.index) = Some(last'.value)
          /\ \A j \in 0..(L - 1) :
                j # last'.index => get(inner', L, N, j) = get(inner, L, N, j)]_vars

\* a set(i, false) has cleared a bit of the second byte and other bits are set
ClearedBitInSecondByte ==
    /\ last.op = "set" /\ last.ret = "Ok"
    /\ last.index >= 8 /\ last.value = FALSE
    /\ count_ones(inner, N) >= 2

FillThenAllOriginal ==
    last.op = "fill" =>
        /\ is_all_one(inner, L, N) <=> (last.value = TRUE /\ L > 0)
        /\ is_all_zero(inner, L, N) <=> (last.value = FALSE /\ L > 0)

\* C7 as amended: right after fill(v), is_all_one() iff (v or L = 0), and
\* is_all_zero() iff (not v or L = 0).
FillThenAll ==
    last.op = "fill" =>
        /\ is_all_one(inner, L, N) <=> (last.value = TRUE \/ L = 0)
        /\ is_all_zero(inner, L, N) <=> (last.value = FALSE \/ L = 0)

\* fill(false) has run on the empty container, which is all-one and all-zero
FillOnEmpty ==
    /\ last.op = "fill" /\ last.value = FALSE
    /\ L = 0
    /\ is_all_one(inner, L, N)
    /\ is_all_zero(inner, L, N)

\* the items a live iterator has returned are get(0), get(1), ... in order,
\* then None, and its cursor is the number of bits returned
IterTrace ==
    iter.alive =>
        /\ iter.index = Min(Len(yielded), L)
        /\ \A k \in 1..Len(yielded) :
              yielded[k] = IF k <= L THEN get(inner, L, N, k - 1) ELSE "None"

\* C8: the k-th next() of a fresh iterator returns get(k - 1) for k = 1..L;
\* every later next() returns None and leaves the cursor at L; no next()
\* modifies the container.
IterOutputTrace ==
    /\ []IterTrace
    /\ [][last'.op = "next" =>
             /\ inner' = inner
             /\ iter.index = L => (iter'.index = L /\ last'.ret = "None")]_vars

\* an iterator over a two-byte container holding ones and zeros has returned
\* all L bits and then None twice
IterExhausted ==
    /\ iter.alive
    /\ N = 2
    /\ Len(yielded) = L + 2
    /\ \E j, k \in 1..L : yielded[j] = "Some(true)" /\ yielded[k] = "Some(false)"

\* C9: the container returned by binvec!(L, initial_value) has len() = L and
\* get(i) = initial_value for every i in [0, L).
FreshContainerIsUniform ==
    last.op = "new" =>
        /\ len(L) = last.index
        /\ \A i \in 0..(last.index - 1) : get(inner, L, N, i) = Some(last.value)

\* binvec!(L, true) for a two-byte container with padding
FreshTrueWithPadding ==
    /\ last.op = "new" /\ last.value = TRUE
    /\ N = 2 /\ L % 8 # 0

\* C10: two containers of the same length, each reached by its own set and
\* fill calls, compare equal iff get(i) agrees on both for every i in [0, L).
EqualityIsLogical ==
    eq(inner, other) <=>
        \A i \in 0..(L - 1) : get(inner, L, N, i) = get(other, L, N, i)

\* b was built all-zero with 5 bits; a and b now hold the same three ones in
\* a byte with padding, and compare equal
EqualAfterDifferentHistories ==
    /\ last = Call("new", 5, FALSE, "Binvec")
    /\ eq(inner, other)
    /\ count_ones(other, N) = 3

====
